---- MODULE Spec2Model ----
(***************************************************************************)
(* Model of the debug reverse proxy (src/main.py, src/config.py).          *)
(*                                                                         *)
(* The request pipeline ProxyServer._handle_request runs on one asyncio    *)
(* event loop: a handler runs without interleaving with other handlers     *)
(* from one await to the next (variable running).  reload_config runs on   *)
(* the file watcher's thread and interleaves with every handler step; the  *)
(* two meet at config_lock and at the attribute self.config.               *)
(*                                                                         *)
(* main.py reads self.config.target and condition.enabled.  The schema in  *)
(* config.py declares ProxyConfig.targets and no field enabled; the model  *)
(* gives the configuration object the attributes main.py reads.            *)
(***************************************************************************)
EXTENDS Integers, Sequences, FiniteSets, TLC

\* ---------------------------------------------------------------- bounds
\* requests received plus changes of the configuration file
MaxEvents == 2
\* endpoints in a list handed to the matcher on its own
MaxEndpoints == 2

\* ------------------------------------------------------- Optional[...]
None == << >>
Some(x) == << x >>
TruthyInt(o) == o # None /\ o[1] # 0
TruthyStr(o) == o # None /\ o[1] # ""
TruthyDict(o) == o # None /\ DOMAIN o[1] # {}

EmptyDict == [k \in {} |-> ""]
OrEmpty(o) == IF TruthyDict(o) THEN o[1] ELSE EmptyDict

\* ------------------------------------------------------------ str.upper
upper(s) ==
    CASE s = "get" -> "GET"
      [] s = "Get" -> "GET"
      [] s = "post" -> "POST"
      [] OTHER -> s

\* -------------------------------------------------- paths are char lists
P_root == << "/" >>
P_f == << "/", "f" >>
P_fz == << "/", "f", "z" >>
P_a == << "/", "a" >>
P_az == << "/", "a", "z" >>
P_a_x == << "/", "a", "/", "x" >>
P_star == << "/", "*" >>
P_a_star == << "/", "a", "/", "*" >>
P_dot_star == << "/", ".", "*" >>
P_a_nl_x == << "/", "a", "/", "\n", "x" >>

\* str.replace("*", ".*")
RECURSIVE replace_star(_)
replace_star(pattern) ==
    IF pattern = << >> THEN << >>
    ELSE (IF Head(pattern) = "*" THEN << ".", "*" >> ELSE << Head(pattern) >>)
         \o replace_star(Tail(pattern))

\* one regex atom against one character: without re.DOTALL '.' is any
\* character but the newline
atom_matches(a, c) == (a = "." /\ c # "\n") \/ a = c

\* re.match("^" + regex + "$", s): atoms, each optionally followed by '*';
\* '$' is the end of s or the place before a newline that ends s
RECURSIVE re_match(_, _)
re_match(regex, s) ==
    IF regex = << >> THEN s = << >> \/ s = << "\n" >>
    ELSE IF Len(regex) >= 2 /\ regex[2] = "*"
         THEN \/ re_match(Tail(Tail(regex)), s)
              \/ /\ s # << >>
                 /\ atom_matches(regex[1], Head(s))
                 /\ re_match(regex, Tail(s))
         ELSE /\ s # << >>
              /\ atom_matches(regex[1], Head(s))
              /\ re_match(Tail(regex), Tail(s))

Contains(seq, x) == \E i \in 1..Len(seq) : seq[i] = x

path_matches(pattern, path) ==
    IF pattern = P_star THEN TRUE
    ELSE IF Contains(pattern, "*") THEN re_match(replace_star(pattern), path)
    ELSE pattern = path

\* mutant: the comparison forgets the case folding
method_matches_cs(allowed_methods, method) ==
    \/ Contains(allowed_methods, "*")
    \/ \E i \in 1..Len(allowed_methods) : allowed_methods[i] = method

method_matches(allowed_methods, method) ==
    \/ Contains(allowed_methods, "*")
    \/ \E i \in 1..Len(allowed_methods) :
          upper(allowed_methods[i]) = upper(method)

endpoint_matches(endpoint, path, method) ==
    path_matches(endpoint.path, path) /\ method_matches(endpoint.methods, method)

\* the for loop of _find_matching_endpoint: first hit wins, else None
RECURSIVE find_from(_, _, _, _)
find_from(endpoints, i, path, method) ==
    IF i > Len(endpoints) THEN None
    ELSE IF endpoint_matches(endpoints[i], path, method)
         THEN Some(endpoints[i])
         ELSE find_from(endpoints, i + 1, path, method)

find_matching_endpoint(cfg, path, method) ==
    find_from(cfg.target.endpoints, 1, path, method)


\* ------------------------------------------------------- config schema
\* FailureCondition (config.py) plus the attribute enabled main.py reads
Cond(enabled, method, count, every, probability, delay) ==
    [enabled |-> enabled, method |-> method, count |-> count,
     every |-> every, probability |-> probability, delay |-> delay]

FailureResponse(status_code, body, headers) ==
    [status_code |-> status_code, body |-> body, headers |-> headers]

FailureRule(condition, response) ==
    [condition |-> condition, response |-> response]

Endpoint(path, methods, failure_rules) ==
    [path |-> path, methods |-> methods, failure_rules |-> failure_rules]

Target(url, headers, endpoints) ==
    [url |-> url, headers |-> headers, endpoints |-> endpoints]

ProxyConfig(target, level) ==
    [target |-> target, logging |-> [level |-> level]]

\* probabilities and random() draws are in tenths: 5 is 0.5, 10 is 1.0
RandomDraws == {0, 5, 9}

Dict1(k, v) == [x \in {k} |-> v]

\* ------------------------------------- the configuration files on disk
R_count2 == FailureRule(Cond(TRUE, None, Some(2), None, None, None),
                FailureResponse(500, Some(Dict1("error", "boom")), None))
R_c3e2 == FailureRule(Cond(TRUE, None, Some(3), Some(2), None, None),
                FailureResponse(503, None, None))
R_every2 == FailureRule(Cond(TRUE, None, None, Some(2), None, Some(100)),
                FailureResponse(500, None, Some(Dict1("retry-after", "1"))))
R_prob0 == FailureRule(Cond(TRUE, None, None, None, Some(0), None),
                FailureResponse(418, Some(EmptyDict), Some(EmptyDict)))
R_off == FailureRule(Cond(FALSE, None, None, None, None, None),
                FailureResponse(500, None, None))
R_half == FailureRule(Cond(TRUE, Some("get"), None, None, Some(5), None),
                FailureResponse(502, None, None))
R_c2e2 == FailureRule(Cond(TRUE, None, Some(2), Some(2), None, None),
                FailureResponse(409, None, None))

F1 == ProxyConfig(
        Target("http://a", None,
               << Endpoint(P_f, << "*" >>, << R_count2 >>),
                  Endpoint(P_star, << "get" >>, << >>) >>),
        "INFO")

F2 == ProxyConfig(
        Target("http://b/", Some(Dict1("x-key", "s")),
               << Endpoint(P_f, << "GET" >>, << R_c3e2, R_every2 >>),
                  Endpoint(P_f, << "post" >>, << R_prob0 >>),
                  Endpoint(P_star, << "*" >>, << R_every2 >>) >>),
        "DEBUG")

F3 == ProxyConfig(
        Target("http://a", Some([x \in {"Host", "X-Key"} |-> "h"]),
               << Endpoint(P_f, << "get", "POST" >>, << R_off, R_half, R_count2 >>),
                  Endpoint(P_a_star, << "*" >>, << R_c2e2 >>) >>),
        "VERBOSE")

ValidFiles == {"F1", "F2", "F3"}
Files == ValidFiles \cup {"invalid", "missing"}

FileData(f) ==
    CASE f = "F1" -> F1
      [] f = "F2" -> F2
      [] OTHER -> F3

\* mutant: a file that does not validate yields a default model
load_config_lenient(f) ==
    IF f \in ValidFiles THEN [ok |-> TRUE, data |-> FileData(f)]
    ELSE [ok |-> f = "invalid", data |-> F3]

\* load_config: FileNotFoundError, a YAML or validation error, or the model
load_config(f) ==
    IF f \in ValidFiles THEN [ok |-> TRUE, data |-> FileData(f)]
    ELSE [ok |-> FALSE, data |-> F1]

\* getattr(logging, level) succeeds for the names the logging module has
LevelNames == {"DEBUG", "INFO", "WARNING", "ERROR"}

\* --------------------------------------------------------- requests
Methods == {"GET", "POST"}
Paths == {P_f, P_a_x}

\* mutant: the key leaves the method out
key_of_path(method, path) == << "GET", ":" >> \o path

\* f"{method}:{path}"
key_of(method, path) == << method, ":" >> \o path

Keys == {key_of(m, p) : m \in Methods, p \in Paths}
InboundHeaders == {[x \in {"host", "x-key", "accept"} |-> "c"]}
\* what httpx hands back: header names are lower case in response.headers
BackendResponses ==
    { [status_code |-> 200, content |-> "ok",
       headers |-> [x \in {"content-type", "content-length",
                           "content-encoding", "transfer-encoding"} |-> "v"]],
      [status_code |-> 500, content |-> "",
       headers |-> Dict1("x-b", "v")] }

Slots == 1..MaxEvents


\* ---------------------------------------------------- FailureInjector
\* mutant: the key is only set when it is absent
increment_once(counts, key) ==
    [counts EXCEPT ![key] = IF counts[key] = 0 THEN 1 ELSE counts[key]]

\* self.request_counts[key] += 1 on the defaultdict(int)
increment(counts, key) == [counts EXCEPT ![key] = counts[key] + 1]

NoInject(counts, incremented) ==
    [counts |-> counts, incremented |-> incremented, fire |-> FALSE, sleep |-> FALSE]

\* mutant: count is compared with the value before the increment
after_increment_stale(condition, counts, v, rnd) ==
    IF TruthyInt(condition.count) /\ v - 1 # condition.count[1]
    THEN NoInject(counts, TRUE)
    ELSE IF TruthyInt(condition.every) /\ v % condition.every[1] # 0
    THEN NoInject(counts, TRUE)
    ELSE IF TruthyInt(condition.probability) /\ rnd > condition.probability[1]
    THEN NoInject(counts, TRUE)
    ELSE [counts |-> counts, incremented |-> TRUE, fire |-> TRUE,
          sleep |-> TruthyInt(condition.delay)]

\* mutant: every fires on the requests that are not a multiple
after_increment_odd(condition, counts, v, rnd) ==
    IF TruthyInt(condition.count) /\ v # condition.count[1]
    THEN NoInject(counts, TRUE)
    ELSE IF TruthyInt(condition.every) /\ v % condition.every[1] = 0
    THEN NoInject(counts, TRUE)
    ELSE IF TruthyInt(condition.probability) /\ rnd > condition.probability[1]
    THEN NoInject(counts, TRUE)
    ELSE [counts |-> counts, incremented |-> TRUE, fire |-> TRUE,
          sleep |-> TruthyInt(condition.delay)]

\* the checks that follow the increment; v is request_counts[key]
after_increment(condition, counts, v, rnd) ==
    IF TruthyInt(condition.count) /\ v # condition.count[1]
    THEN NoInject(counts, TRUE)
    ELSE IF TruthyInt(condition.every) /\ v % condition.every[1] # 0
    THEN NoInject(counts, TRUE)
    ELSE IF TruthyInt(condition.probability) /\ rnd > condition.probability[1]
    THEN NoInject(counts, TRUE)
    ELSE [counts |-> counts, incremented |-> TRUE, fire |-> TRUE,
          sleep |-> TruthyInt(condition.delay)]

\* mutant: the counter is incremented before the method is compared
should_inject_failure_early(rule, method, path, counts, rnd) ==
    LET condition == rule.condition
        key == key_of(method, path)
        counts2 == increment(counts, key)
    IN  IF ~condition.enabled THEN NoInject(counts, FALSE)
        ELSE IF TruthyStr(condition.method)
                /\ upper(condition.method[1]) # upper(method)
        THEN NoInject(counts2, TRUE)
        ELSE after_increment(condition, counts2, counts2[key], rnd)

\* rnd is the value random.random() returns if it is called
should_inject_failure(rule, method, path, counts, rnd) ==
    LET condition == rule.condition
        key == key_of(method, path)
    IN  IF ~condition.enabled THEN NoInject(counts, FALSE)
        ELSE IF TruthyStr(condition.method)
                /\ upper(condition.method[1]) # upper(method)
        THEN NoInject(counts, FALSE)
        ELSE LET counts2 == increment(counts, key)
             IN  after_increment(condition, counts2, counts2[key], rnd)

\* ------------------------------------------------- forwarding helpers
\* dict.update
dict_update(d, e) ==
    [k \in (DOMAIN d) \cup (DOMAIN e) |-> IF k \in DOMAIN e THEN e[k] ELSE d[k]]

\* dict.pop(key, None)
dict_pop(d, key) == [k \in (DOMAIN d) \ {key} |-> d[k]]

\* target.url.rstrip('/')
rstrip_slash(url) ==
    CASE url = "http://b/" -> "http://b"
      [] OTHER -> url

outbound_headers(request_headers, target) ==
    LET merged == IF TruthyDict(target.headers)
                  THEN dict_update(request_headers, target.headers[1])
                  ELSE request_headers
    IN  dict_pop(merged, "host")

target_url(target, path) == << rstrip_slash(target.url), path >>

HopHeaders == {"content-encoding", "transfer-encoding", "content-length"}

\* mutant: only the length is popped
response_headers_length_only(backend_headers) ==
    dict_pop(backend_headers, "content-length")

\* dict(response.headers) and the three pops
response_headers(backend_headers) ==
    [k \in (DOMAIN backend_headers) \ HopHeaders |-> backend_headers[k]]

\* dict.get("content-type")
media_type(backend_headers) ==
    IF "content-type" \in DOMAIN backend_headers
    THEN Some(backend_headers["content-type"]) ELSE None

\* mutant: the status code is fixed instead of the rule's
injected_response_500(rule) ==
    [kind |-> "injected", status_code |-> 500,
     content |-> OrEmpty(rule.response.body),
     headers |-> OrEmpty(rule.response.headers), media_type |-> None]

injected_response(rule) ==
    [kind |-> "injected", status_code |-> rule.response.status_code,
     content |-> OrEmpty(rule.response.body),
     headers |-> OrEmpty(rule.response.headers), media_type |-> None]

relayed_response(resp) ==
    [kind |-> "relayed", status_code |-> resp.status_code,
     content |-> resp.content, headers |-> response_headers(resp.headers),
     media_type |-> media_type(resp.headers)]

http_exception(status_code) ==
    [kind |-> "error", status_code |-> status_code, content |-> "detail",
     headers |-> EmptyDict, media_type |-> None]

\* ------------------------------------------------------------- state
VARIABLES
    config,          \* ProxyServer.config: [id, data]
    config_lock,     \* owner of the RLock: "free", "watcher", "loop"
    log_level,       \* level of ProxyServer.logger
    request_counts,  \* FailureInjector.request_counts
    file,            \* what is at config_path on disk
    events,          \* on_modified events not yet handled
    rpc,             \* position of the watcher thread in reload_config
    req,             \* the requests in flight, one per slot
    running,         \* the request that owns the event loop, 0 if none
    nreq,            \* requests received so far
    writes,          \* changes of the file so far
    loads,           \* successful load_config calls so far
    reload_errors,   \* "Failed to reload configuration" log lines
    evals,           \* per key: evaluations that reached the increment
    ords,            \* per key: matched requests that began evaluation
    serial,          \* no request was received while another was in flight
    m_endpoints, m_path, m_method, m_result   \* one call of the matcher

pvars == << config, config_lock, log_level, request_counts, file, events, rpc,
            req, running, nreq, writes, loads, reload_errors, evals, ords,
            serial >>
mvars == << m_endpoints, m_path, m_method, m_result >>
vars == << pvars, mvars >>

FreeReq ==
    [pc |-> "free", method |-> "GET", path |-> P_f, headers |-> EmptyDict,
     endpoint |-> None, ep_cfg |-> 0, target |-> None, tgt_cfg |-> 0,
     rule |-> 0, fired |-> 0, calls |-> 0, incs |-> 0,
     ord |-> 0, start_id |-> 0, errs0 |-> 0, sent |-> None,
     outcome |-> "none", backend |-> None, response |-> None,
     holds |-> FALSE]

Terminal == {"rejected", "completed", "failed"}
InFlight(r) == req[r].pc \notin (Terminal \cup {"free"})

\* reloads whose swap is done and whose lock is released
CompletedId == IF rpc = "swapped" THEN loads - 1 ELSE loads

MatcherIdle ==
    /\ m_endpoints = << >>
    /\ m_path = P_root
    /\ m_method = "GET"
    /\ m_result = << "idle" >>

PInit(f) ==
    /\ config = [id |-> 1, data |-> load_config(f).data]
    /\ config_lock = "free"
    /\ log_level = load_config(f).data.logging.level
    /\ request_counts = [k \in Keys |-> 0]
    /\ file = f
    /\ events = 0
    /\ rpc = "idle"
    /\ req = [r \in Slots |-> FreeReq]
    /\ running = 0
    /\ nreq = 0
    /\ writes = 0
    /\ loads = 1
    /\ reload_errors = 0
    /\ evals = [k \in Keys |-> 0]
    /\ ords = [k \in Keys |-> 0]
    /\ serial = TRUE

\* main(): load_config succeeded and _setup_logging found the level
Init ==
    /\ \E f \in ValidFiles :
          /\ load_config(f).data.logging.level \in LevelNames
          /\ PInit(f)
    /\ MatcherIdle


\* ------------------------------------------------ the file and watcher
\* the file is rewritten; the observer queues on_modified
WriteFile(f) ==
    /\ nreq + writes < MaxEvents
    /\ f \in ValidFiles \cup {"invalid"}
    /\ file' = f
    /\ events' = events + 1
    /\ writes' = writes + 1
    /\ UNCHANGED << config, config_lock, log_level, request_counts, rpc, req,
                    running, nreq, loads, reload_errors, evals, ords, serial >>
    /\ UNCHANGED mvars

\* the file is removed: no on_modified for it
RemoveFile ==
    /\ nreq + writes < MaxEvents
    /\ file # "missing"
    /\ file' = "missing"
    /\ writes' = writes + 1
    /\ UNCHANGED << config, config_lock, log_level, request_counts, events,
                    rpc, req, running, nreq, loads, reload_errors, evals, ords,
                    serial >>
    /\ UNCHANGED mvars

\* on_modified -> reload_config: with self.config_lock
ReloadAcquire ==
    /\ rpc = "idle"
    /\ events > 0
    /\ config_lock = "free"
    /\ config_lock' = "watcher"
    /\ rpc' = "loading"
    /\ events' = events - 1
    /\ UNCHANGED << config, log_level, request_counts, file, req, running,
                    nreq, writes, loads, reload_errors, evals, ords, serial >>
    /\ UNCHANGED mvars

\* mutant: the loaded model is never assigned to self.config
ReloadSwap_noassign ==
    /\ rpc = "loading"
    /\ load_config(file).ok
    /\ loads' = loads + 1
    /\ rpc' = "swapped"
    /\ UNCHANGED << config, config_lock, log_level, request_counts, file,
                    events, req, running, nreq, writes, reload_errors, evals,
                    ords, serial >>
    /\ UNCHANGED mvars

\* new_config = load_config(...); self.config = new_config
ReloadSwap ==
    /\ rpc = "loading"
    /\ load_config(file).ok
    /\ config' = [id |-> loads + 1, data |-> load_config(file).data]
    /\ loads' = loads + 1
    /\ rpc' = "swapped"
    /\ UNCHANGED << config_lock, log_level, request_counts, file, events, req,
                    running, nreq, writes, reload_errors, evals, ords, serial >>
    /\ UNCHANGED mvars

\* load_config raised: the with block releases the lock, except logs
ReloadFail ==
    /\ rpc = "loading"
    /\ ~load_config(file).ok
    /\ config_lock' = "free"
    /\ rpc' = "idle"
    /\ reload_errors' = reload_errors + 1
    /\ UNCHANGED << config, log_level, request_counts, file, events, req,
                    running, nreq, writes, loads, evals, ords, serial >>
    /\ UNCHANGED mvars

\* mutant: a reload that went through starts the counters again
ReloadFinish_reset ==
    /\ rpc = "swapped"
    /\ IF config.data.logging.level \in LevelNames
       THEN /\ log_level' = config.data.logging.level
            /\ UNCHANGED reload_errors
       ELSE /\ reload_errors' = reload_errors + 1
            /\ UNCHANGED log_level
    /\ config_lock' = "free"
    /\ rpc' = "idle"
    /\ request_counts' = [k \in Keys |-> 0]
    /\ UNCHANGED << config, file, events, req, running, nreq, writes, loads,
                    evals, ords, serial >>
    /\ UNCHANGED mvars

\* self.logger.setLevel(getattr(logging, level)); leaving the with block
ReloadFinish ==
    /\ rpc = "swapped"
    /\ IF config.data.logging.level \in LevelNames
       THEN /\ log_level' = config.data.logging.level
            /\ UNCHANGED reload_errors
       ELSE /\ reload_errors' = reload_errors + 1
            /\ UNCHANGED log_level
    /\ config_lock' = "free"
    /\ rpc' = "idle"
    /\ UNCHANGED << config, request_counts, file, events, req, running, nreq,
                    writes, loads, evals, ords, serial >>
    /\ UNCHANGED mvars

\* ------------------------------------------------------ _handle_request
ReqFrame == << config, log_level, file, events, rpc, writes, loads,
               reload_errors >>

\* a request arrives; its handler starts on the free loop: path, method,
\* the call of _find_matching_endpoint
Receive(r, method, path, headers) ==
    /\ req[r].pc = "free"
    /\ \A q \in Slots : q < r => req[q].pc # "free"
    /\ nreq + writes < MaxEvents
    /\ running = 0
    /\ running' = r
    /\ req' = [req EXCEPT ![r] = [FreeReq EXCEPT !.pc = "find",
                                     !.method = method, !.path = path,
                                     !.headers = headers,
                                     !.start_id = CompletedId,
                                     !.errs0 = reload_errors]]
    /\ nreq' = nreq + 1
    /\ serial' = (serial /\ \A q \in Slots : ~InFlight(q))
    /\ UNCHANGED << config_lock, request_counts, evals, ords >>
    /\ UNCHANGED ReqFrame
    /\ UNCHANGED mvars

\* with self.config_lock
Acquire(r) ==
    /\ req[r].pc = "find"
    /\ config_lock = "free"
    /\ config_lock' = "loop"
    /\ req' = [req EXCEPT ![r].pc = "locked", ![r].holds = TRUE]
    /\ UNCHANGED << request_counts, running, nreq, evals, ords, serial >>
    /\ UNCHANGED ReqFrame
    /\ UNCHANGED mvars

\* mutant: the handler returns from the matcher with the lock still held
Find_keeps_lock(r) ==
    /\ req[r].pc = "locked"
    /\ req' = [req EXCEPT
                 ![r].pc = "found",
                 ![r].endpoint = find_matching_endpoint(config.data,
                                     req[r].path, req[r].method),
                 ![r].ep_cfg = config.id]
    /\ UNCHANGED << config_lock, request_counts, running, nreq, evals, ords,
                    serial >>
    /\ UNCHANGED << config, log_level, file, events, rpc, writes, loads,
                    reload_errors >>
    /\ UNCHANGED mvars

\* the loop over self.config.target.endpoints, return, lock released
Find(r) ==
    /\ req[r].pc = "locked"
    /\ req' = [req EXCEPT
                 ![r].pc = "found",
                 ![r].holds = FALSE,
                 ![r].endpoint = find_matching_endpoint(config.data,
                                     req[r].path, req[r].method),
                 ![r].ep_cfg = config.id]
    /\ config_lock' = "free"
    /\ UNCHANGED << request_counts, running, nreq, evals, ords, serial >>
    /\ UNCHANGED ReqFrame
    /\ UNCHANGED mvars

\* mutant: the handler goes on without an endpoint
ReadTarget_noreject(r) ==
    /\ req[r].pc = "found"
    /\ req' = [req EXCEPT ![r].pc = "body",
                          ![r].target = Some(config.data.target),
                          ![r].tgt_cfg = config.id]
    /\ running' = 0
    /\ UNCHANGED << config_lock, request_counts, nreq, evals, ords, serial >>
    /\ UNCHANGED << config, log_level, file, events, rpc, writes, loads,
                    reload_errors >>
    /\ UNCHANGED mvars

\* target = self.config.target; 404 without an endpoint, else await body()
ReadTarget(r) ==
    /\ req[r].pc = "found"
    /\ IF req[r].endpoint = None
       THEN /\ req' = [req EXCEPT ![r].pc = "rejected",
                                  ![r].target = Some(config.data.target),
                                  ![r].tgt_cfg = config.id,
                                  ![r].response = Some(http_exception(404))]
            /\ UNCHANGED running
       ELSE /\ req' = [req EXCEPT ![r].pc = "body",
                                  ![r].target = Some(config.data.target),
                                  ![r].tgt_cfg = config.id]
            /\ running' = 0
    /\ UNCHANGED << config_lock, request_counts, nreq, evals, ords, serial >>
    /\ UNCHANGED ReqFrame
    /\ UNCHANGED mvars

\* the body is read; the handler goes on to the failure rules
Resume(r) ==
    /\ req[r].pc = "body"
    /\ running = 0
    /\ running' = r
    /\ LET key == key_of(req[r].method, req[r].path)
       IN  /\ ords' = [ords EXCEPT ![key] = ords[key] + 1]
           /\ req' = [req EXCEPT ![r].pc = "eval", ![r].rule = 1,
                                 ![r].ord = ords[key] + 1]
    /\ UNCHANGED << config_lock, request_counts, nreq, evals, serial >>
    /\ UNCHANGED ReqFrame
    /\ UNCHANGED mvars

Rules(r) == req[r].endpoint[1].failure_rules

\* one call of should_inject_failure, up to its sleep or its return
Eval(r, rnd) ==
    /\ req[r].pc = "eval"
    /\ req[r].rule <= Len(Rules(r))
    /\ LET rule == Rules(r)[req[r].rule]
           key == key_of(req[r].method, req[r].path)
           res == should_inject_failure(rule, req[r].method, req[r].path,
                                        request_counts, rnd)
           n == IF res.incremented THEN 1 ELSE 0
           r1 == [req[r] EXCEPT !.incs = @ + n]
       IN  /\ request_counts' = res.counts
           /\ evals' = [evals EXCEPT ![key] = @ + n]
           /\ IF ~res.fire
              THEN /\ req' = [req EXCEPT ![r] = [r1 EXCEPT !.rule = @ + 1]]
                   /\ UNCHANGED running
              ELSE IF res.sleep
              THEN /\ req' = [req EXCEPT ![r] = [r1 EXCEPT !.pc = "sleeping"]]
                   /\ UNCHANGED running
              ELSE /\ req' = [req EXCEPT ![r] =
                                [r1 EXCEPT !.pc = "completed",
                                           !.fired = req[r].rule,
                                           !.response = Some(injected_response(rule))]]
                   /\ UNCHANGED running
    /\ UNCHANGED << config_lock, nreq, ords, serial >>
    /\ UNCHANGED ReqFrame
    /\ UNCHANGED mvars

\* time.sleep returns, should_inject_failure returns True, JSONResponse
Wake(r) ==
    /\ req[r].pc = "sleeping"
    /\ req' = [req EXCEPT ![r].pc = "completed",
                          ![r].fired = req[r].rule,
                          ![r].response =
                              Some(injected_response(Rules(r)[req[r].rule]))]
    /\ UNCHANGED << config_lock, request_counts, running, nreq, evals, ords,
                    serial >>
    /\ UNCHANGED ReqFrame
    /\ UNCHANGED mvars

\* no rule fired: headers, target_url, await self.client.request(...)
Forward(r) ==
    /\ req[r].pc = "eval"
    /\ req[r].rule > Len(Rules(r))
    /\ req' = [req EXCEPT
                 ![r].pc = "forwarding",
                 ![r].calls = @ + 1,
                 ![r].sent = Some([method |-> req[r].method,
                                   url |-> target_url(req[r].target[1], req[r].path),
                                   headers |-> outbound_headers(req[r].headers,
                                                                req[r].target[1])])]
    /\ running' = 0
    /\ UNCHANGED << config_lock, request_counts, nreq, evals, ords, serial >>
    /\ UNCHANGED ReqFrame
    /\ UNCHANGED mvars

\* the backend answered: hop headers popped, Response(...)
BackendRespond(r, resp) ==
    /\ req[r].pc = "forwarding"
    /\ running = 0
    /\ req' = [req EXCEPT ![r].pc = "completed",
                          ![r].outcome = "response",
                          ![r].backend = Some(resp),
                          ![r].response = Some(relayed_response(resp))]
    /\ running' = r
    /\ UNCHANGED << config_lock, request_counts, nreq, evals, ords, serial >>
    /\ UNCHANGED ReqFrame
    /\ UNCHANGED mvars

\* mutant: the call is tried again after a transport error
BackendError_retry(r) ==
    /\ req[r].pc = "forwarding"
    /\ running = 0
    /\ running' = r
    /\ req' = [req EXCEPT ![r].pc = "eval", ![r].outcome = "transport_error"]
    /\ UNCHANGED << config_lock, request_counts, nreq, evals, ords, serial >>
    /\ UNCHANGED << config, log_level, file, events, rpc, writes, loads,
                    reload_errors >>
    /\ UNCHANGED mvars

\* mutant: the client has no timeout and the call never fails
BackendError_never(r) ==
    /\ FALSE
    /\ req[r].pc = "forwarding"
    /\ UNCHANGED vars

\* httpx.RequestError (connect error, timeout, DNS): HTTPException(502)
BackendError(r) ==
    /\ req[r].pc = "forwarding"
    /\ running = 0
    /\ req' = [req EXCEPT ![r].pc = "failed",
                          ![r].outcome = "transport_error",
                          ![r].response = Some(http_exception(502))]
    /\ running' = r
    /\ UNCHANGED << config_lock, request_counts, nreq, evals, ords, serial >>
    /\ UNCHANGED ReqFrame
    /\ UNCHANGED mvars

\* the handler has returned or raised; the response goes out and the
\* loop is free again
Release(r) ==
    /\ req[r].pc \in Terminal
    /\ req' = [req EXCEPT ![r] = FreeReq]
    /\ running' = 0
    /\ UNCHANGED << config_lock, request_counts, nreq, evals, ords, serial >>
    /\ UNCHANGED ReqFrame
    /\ UNCHANGED mvars

Next ==
    \/ \E f \in Files : WriteFile(f)
    \/ RemoveFile
    \/ ReloadAcquire
    \/ ReloadSwap
    \/ ReloadFail
    \/ ReloadFinish
    \/ \E r \in Slots, m \in Methods, p \in Paths, h \in InboundHeaders :
          Receive(r, m, p, h)
    \/ \E r \in Slots : Acquire(r)
    \/ \E r \in Slots : Find(r)
    \/ \E r \in Slots : ReadTarget(r)
    \/ \E r \in Slots : Resume(r)
    \/ \E r \in Slots, rnd \in RandomDraws : Eval(r, rnd)
    \/ \E r \in Slots : Wake(r)
    \/ \E r \in Slots : Forward(r)
    \/ \E r \in Slots, resp \in BackendResponses : BackendRespond(r, resp)
    \/ \E r \in Slots : BackendError(r)
    \/ \E r \in Slots : Release(r)

Spec == Init /\ [][Next]_vars

\* the steps the process takes by itself: the watcher thread inside
\* reload_config, the handlers on the event loop (the body has arrived, the
\* sleep is over), and the end of the backend call by the client's timeout
\* or another transport error.  A new file, a new request and an answer of
\* the backend are up to the world outside.
Progress ==
    \/ ReloadAcquire
    \/ ReloadSwap
    \/ ReloadFail
    \/ ReloadFinish
    \/ \E r \in Slots : Acquire(r)
    \/ \E r \in Slots : Find(r)
    \/ \E r \in Slots : ReadTarget(r)
    \/ \E r \in Slots : Resume(r)
    \/ \E r \in Slots, rnd \in RandomDraws : Eval(r, rnd)
    \/ \E r \in Slots : Wake(r)
    \/ \E r \in Slots : Forward(r)
    \/ \E r \in Slots : BackendError(r)
    \/ \E r \in Slots : Release(r)

\* the process does not stop while it has a step to take
SpecLive == Init /\ [][Next]_vars /\ WF_vars(Progress)

TypeOK ==
    /\ config_lock \in {"free", "watcher", "loop"}
    /\ rpc \in {"idle", "loading", "swapped"}
    /\ running \in 0..MaxEvents


\* --------------------------------- the matcher on its own (pure function)
MatchPatterns ==
    {P_f, P_a, P_star, P_a_star, << "/", "a", "*" >>, << "/", "." >>, P_dot_star}
MatchMethodLists == {<< "*" >>, << "GET" >>, << "get" >>, << "post", "Get" >>, << >>}
MatchPaths == {P_root, P_f, P_fz, P_a, P_az, P_a_x, P_a_nl_x}
MatchEndpoints ==
    {Endpoint(p, ms, << >>) : p \in MatchPatterns, ms \in MatchMethodLists}
MatchEndpointLists ==
    UNION {[1..n -> MatchEndpoints] : n \in 0..MaxEndpoints}

InitMatch ==
    /\ PInit("F1")
    /\ m_endpoints \in MatchEndpointLists
    /\ m_path \in MatchPaths
    /\ m_method \in Methods
    /\ m_result = << "idle" >>

ApplyMatch ==
    /\ m_result = << "idle" >>
    /\ m_result' = << "done",
                      find_matching_endpoint(
                          ProxyConfig(Target("http://a", None, m_endpoints), "INFO"),
                          m_path, m_method) >>
    /\ UNCHANGED << m_endpoints, m_path, m_method >>
    /\ UNCHANGED pvars

NextMatch == ApplyMatch

SpecMatch == InitMatch /\ [][NextMatch]_vars

\* ================================================================ claims

\* an endpoint qualifies for a request: its pattern matches the path and its
\* methods hold the wildcard or the method without regard to case
Qualifies(e, path, method) ==
    /\ path_matches(e.path, path)
    /\ \E i \in 1..Len(e.methods) :
          e.methods[i] = "*" \/ upper(e.methods[i]) = upper(method)

\* C1: matching returns the first endpoint in declaration order that
\* qualifies, and returns none if and only if no endpoint qualifies.
C1_FirstMatch ==
    m_result[1] = "done" =>
        LET res == m_result[2]
            hits == {i \in 1..Len(m_endpoints) :
                        Qualifies(m_endpoints[i], m_path, m_method)}
        IN  /\ (res = None) <=> (hits = {})
            /\ res # None =>
                  \E i \in hits : /\ \A j \in hits : i <= j
                                  /\ res[1] = m_endpoints[i]

\* a later endpoint also qualifies, and the earlier, different one is returned
C1_Witness ==
    /\ m_result[1] = "done"
    /\ Len(m_endpoints) = 2
    /\ m_endpoints[1] # m_endpoints[2]
    /\ Qualifies(m_endpoints[1], m_path, m_method)
    /\ Qualifies(m_endpoints[2], m_path, m_method)
    /\ m_result[2] = Some(m_endpoints[1])

PastFind(q) == q.pc \notin {"free", "find", "locked"}

\* C2: a request that matches no endpoint goes straight to Rejected with
\* 404; it issues no backend call, and no counter moves while it is handled.
C2_Step ==
    \A r \in Slots :
        /\ (PastFind(req'[r]) /\ req'[r].endpoint = None) =>
              /\ req'[r].pc \in {"found", "rejected"}
              /\ req'[r].calls = 0
              /\ req'[r].incs = 0
              /\ req'[r].sent = None
        /\ (req[r].pc = "found" /\ req[r].endpoint = None /\ req'[r] # req[r]) =>
              /\ req'[r].pc = "rejected"
              /\ req'[r].response[1].status_code = 404
        /\ (req'[r].pc = "rejected" /\ req[r].pc # "rejected") =>
              /\ req[r].endpoint = None
              /\ request_counts' = request_counts
        /\ (req[r].pc \in {"find", "locked"}) =>
              request_counts' = request_counts

\* C2: every step keeps an unmatched request on the way to its 404, with
\* no backend call and no counter moved.
C2_NoMatchRejected == [][C2_Step]_vars

\* an unmatched request was rejected while another request, which had
\* already moved a counter, was waiting for the backend
C2_Witness ==
    \E r, q \in Slots :
        /\ req[r].pc = "rejected"
        /\ req[r].response[1].status_code = 404
        /\ req[q].pc = "forwarding"
        /\ req[q].incs > 0

\* the response a rule configures, with the defaults for body and headers
ConfiguredResponse(rule, resp) ==
    /\ resp.status_code = rule.response.status_code
    /\ resp.content = (IF rule.response.body = None THEN EmptyDict
                       ELSE rule.response.body[1])
    /\ resp.headers = (IF rule.response.headers = None THEN EmptyDict
                       ELSE rule.response.headers[1])

\* C3: a request for which a rule fires completes with that rule's
\* response and never calls the backend.
C3_InjectedBypassesBackend ==
    \A r \in Slots :
        /\ req[r].pc = "sleeping" => (req[r].calls = 0 /\ req[r].sent = None)
        /\ req[r].fired > 0 =>
              /\ req[r].pc = "completed"
              /\ req[r].calls = 0
              /\ req[r].sent = None
              /\ req[r].outcome = "none"
              /\ req[r].response # None
              /\ req[r].response[1].kind = "injected"
              /\ ConfiguredResponse(Rules(r)[req[r].fired], req[r].response[1])

\* a rule that leaves its body unset fired after its delay
C3_Witness ==
    \E r \in Slots :
        /\ req[r].fired > 0
        /\ Rules(r)[req[r].fired].response.body = None
        /\ TruthyInt(Rules(r)[req[r].fired].condition.delay)
        /\ req[r].response[1].content = EmptyDict


\* ------------------------------------------ one call of the injector
Key(r) == << req[r].method, ":" >> \o req[r].path
CurRule(r) == Rules(r)[req[r].rule]

\* this step is request r's call of should_inject_failure on CurRule(r)
EvalStep(r) ==
    /\ req[r].pc = "eval"
    /\ req[r].rule <= Len(Rules(r))
    /\ req'[r] # req[r]

\* ... and the call returns True (after its sleep, if any)
FiredIn(r) == req'[r].pc \in {"sleeping", "completed"}

OnlyCount(c) ==
    /\ c.enabled /\ c.method = None /\ TruthyInt(c.count)
    /\ c.every = None /\ c.probability = None

OnlyEvery(c) ==
    /\ c.enabled /\ c.method = None /\ c.count = None
    /\ TruthyInt(c.every) /\ c.probability = None

CountAndEvery(c) ==
    /\ c.enabled /\ c.method = None /\ TruthyInt(c.count)
    /\ TruthyInt(c.every) /\ c.probability = None

\* C4 as stated: in a serialized sequence a rule whose only constraint is
\* count=N fires on the N-th matched request of its method and path, and on
\* no other.
C4_Original_Step ==
    serial =>
        \A r \in Slots :
            (EvalStep(r) /\ OnlyCount(CurRule(r).condition)) =>
                (FiredIn(r) <=> req[r].ord = CurRule(r).condition.count[1])

\* C4 as stated: the count=N rule fires on the N-th request and no other.
C4_Original == [][C4_Original_Step]_vars

\* C4 amended: a rule whose only constraint is count=N fires exactly on the
\* evaluation that raises the counter of the request's key to N; that is the
\* N-th matched request when the counter stood at the number of earlier
\* such requests, and a request that does not fire an endpoint's only rule
\* goes on to the backend.
C4_Step ==
    \A r \in Slots :
        (EvalStep(r) /\ OnlyCount(CurRule(r).condition)) =>
            LET N == CurRule(r).condition.count[1]
            IN  /\ FiredIn(r) <=> request_counts'[Key(r)] = N
                /\ request_counts[Key(r)] = req[r].ord - 1 =>
                      (FiredIn(r) <=> req[r].ord = N)
                /\ (Len(Rules(r)) = 1 /\ ~FiredIn(r)) =>
                      (req'[r].pc = "eval" /\ req'[r].rule > Len(Rules(r)))

\* C4 amended: the count=N rule fires exactly when the key's counter
\* becomes N, which is the N-th request when the counter kept step with
\* the requests.
C4_CountFiresAtCounter == [][C4_Step]_vars

\* the second request to an endpoint whose only rule is count=2 fired it
C4_Witness ==
    \E r \in Slots :
        /\ req[r].pc = "completed"
        /\ req[r].fired = 1
        /\ Len(Rules(r)) = 1
        /\ OnlyCount(Rules(r)[1].condition)
        /\ req[r].ord = 2
        /\ request_counts[Key(r)] = 2

\* C5 as stated: in a serialized sequence a rule whose only constraint is
\* every=K fires on the matched requests whose position is a multiple of K;
\* a rule with count and every fires only where both hold.
C5_Original_Step ==
    serial =>
        \A r \in Slots :
            /\ (EvalStep(r) /\ OnlyEvery(CurRule(r).condition)) =>
                  (FiredIn(r) <=> req[r].ord % CurRule(r).condition.every[1] = 0)
            /\ (EvalStep(r) /\ CountAndEvery(CurRule(r).condition)) =>
                  (FiredIn(r) =>
                      /\ req[r].ord = CurRule(r).condition.count[1]
                      /\ req[r].ord % CurRule(r).condition.every[1] = 0)

\* C5 as stated: the every=K rule fires on the K-th, 2K-th, ... request.
C5_Original == [][C5_Original_Step]_vars

\* C5 amended: a rule whose only constraint is every=K fires exactly on the
\* evaluations that raise the counter of the request's key to a multiple of
\* K, a rule with count and every on the evaluation where the counter is N
\* and a multiple of K; these are the K-th, 2K-th, ... matched requests when
\* the counter stood at the number of earlier such requests.
C5_Step ==
    \A r \in Slots :
        /\ (EvalStep(r) /\ OnlyEvery(CurRule(r).condition)) =>
              LET K == CurRule(r).condition.every[1]
              IN  /\ FiredIn(r) <=> request_counts'[Key(r)] % K = 0
                  /\ request_counts[Key(r)] = req[r].ord - 1 =>
                        (FiredIn(r) <=> req[r].ord % K = 0)
        /\ (EvalStep(r) /\ CountAndEvery(CurRule(r).condition)) =>
              LET N == CurRule(r).condition.count[1]
                  K == CurRule(r).condition.every[1]
              IN  /\ FiredIn(r) <=> (/\ request_counts'[Key(r)] = N
                                     /\ request_counts'[Key(r)] % K = 0)
                  /\ request_counts[Key(r)] = req[r].ord - 1 =>
                        (FiredIn(r) <=> (req[r].ord = N /\ req[r].ord % K = 0))

\* C5 amended: the every=K rule fires exactly when the key's counter
\* becomes a multiple of K, count and every together when it is N and a
\* multiple of K.
C5_EveryFiresAtCounter == [][C5_Step]_vars

\* the second request to an endpoint whose only rule is every=2 fired it
C5_Witness ==
    \E r \in Slots :
        /\ req[r].pc = "completed"
        /\ req[r].fired = 1
        /\ Len(Rules(r)) = 1
        /\ OnlyEvery(Rules(r)[1].condition)
        /\ req[r].ord = 2
        /\ request_counts[Key(r)] = 2

\* C6 as stated: a rule with probability=0 never fires, whatever is drawn.
C6_Step ==
    \A r \in Slots :
        (EvalStep(r) /\ CurRule(r).condition.probability = Some(0)) =>
            ~FiredIn(r)

\* C6 as stated: no evaluation of a probability=0 rule fires.
C6_ProbabilityZeroNeverFires == [][C6_Step]_vars

\* C7: a reload whose file is missing or does not parse or validate changes
\* neither the active configuration nor the log level, leaves the watcher
\* and the lock ready, and touches no request; matching goes on reading the
\* active configuration.
C7_Step ==
    /\ (rpc = "loading" /\ file \notin ValidFiles /\ rpc' # "loading") =>
          /\ config' = config
          /\ log_level' = log_level
          /\ rpc' = "idle"
          /\ config_lock' = "free"
          /\ req' = req
          /\ request_counts' = request_counts
    /\ \A r \in Slots :
          (req[r].pc = "locked" /\ req'[r].pc = "found") =>
              /\ req'[r].ep_cfg = config.id
              /\ req'[r].endpoint =
                    find_matching_endpoint(config.data, req[r].path, req[r].method)

\* C7: a failed reload leaves the active configuration as it was and the
\* server serving.
C7_FailedReloadKeepsConfig == [][C7_Step]_vars

\* a request that arrived after a failed reload is served: no load has
\* succeeded since the start, so it runs on the initial configuration
C7_Witness ==
    \E r \in Slots :
        /\ req[r].errs0 = 1
        /\ loads = 1
        /\ file \notin ValidFiles
        /\ req[r].pc = "forwarding"
        /\ req[r].ep_cfg = 1
        /\ req[r].tgt_cfg = 1

\* C8: a request whose matching starts after a successful reload has
\* completed is matched against, and forwarded to the target of, that
\* configuration or a newer one.
C8_ReloadVisible ==
    /\ CompletedId <= config.id
    /\ \A r \in Slots :
          /\ PastFind(req[r]) =>
                /\ req[r].ep_cfg >= req[r].start_id
                /\ req[r].ep_cfg = config.id =>
                      req[r].endpoint =
                          find_matching_endpoint(config.data, req[r].path,
                                                 req[r].method)
          /\ req[r].target # None =>
                /\ req[r].tgt_cfg >= req[r].start_id
                /\ req[r].tgt_cfg = config.id =>
                      req[r].target = Some(config.data.target)
          /\ req[r].sent # None =>
                req[r].sent[1].url = target_url(req[r].target[1], req[r].path)

\* a request that started after the reload is forwarded on the new model
C8_Witness ==
    \E r \in Slots :
        /\ req[r].start_id = 2
        /\ req[r].ep_cfg = 2
        /\ req[r].tgt_cfg = 2
        /\ req[r].pc = "forwarding"
        /\ req[r].sent[1].url = target_url(config.data.target, req[r].path)

\* C9: a transport failure of the backend call ends the request in Failed
\* with 502, and no request ever issues more than one backend call.
C9_TransportErrorIs502 ==
    \A r \in Slots :
        /\ req[r].calls <= 1
        /\ req[r].outcome = "transport_error" =>
              /\ req[r].pc = "failed"
              /\ req[r].calls = 1
              /\ req[r].response[1].status_code = 502
              /\ req[r].response[1].kind = "error"
        /\ req[r].pc = "failed" => req[r].outcome = "transport_error"

C9_Witness ==
    \E r \in Slots :
        /\ req[r].pc = "failed"
        /\ req[r].calls = 1
        /\ req[r].response[1].status_code = 502

\* C10: for every key the counter equals the number of rule evaluations
\* that have reached the increment for that key.
C10_NoLostIncrement ==
    \A k \in Keys : request_counts[k] = evals[k]

\* two overlapping requests have each incremented the same key
C10_Witness ==
    \E r, q \in Slots :
        /\ r # q
        /\ Key(r) = Key(q)
        /\ req[r].pc = "forwarding"
        /\ req[r].incs >= 1
        /\ req[q].pc \in {"sleeping", "completed", "forwarding"}
        /\ req[q].incs >= 1
        /\ request_counts[Key(r)] >= 2

\* C11: a request the backend answered completes with the backend's status
\* code and body, and with the backend's headers less content-encoding,
\* transfer-encoding and content-length, every other one with its value.
C11_RelayedResponse ==
    \A r \in Slots :
        /\ req[r].backend # None <=> req[r].outcome = "response"
        /\ req[r].outcome = "response" =>
              LET b == req[r].backend[1]
                  out == req[r].response[1]
              IN  /\ req[r].pc = "completed"
                  /\ out.kind = "relayed"
                  /\ out.status_code = b.status_code
                  /\ out.content = b.content
                  /\ DOMAIN out.headers = (DOMAIN b.headers) \ HopHeaders
                  /\ \A k \in DOMAIN out.headers : out.headers[k] = b.headers[k]

\* the backend sent all three of them and a content type, which is kept
C11_Witness ==
    \E r \in Slots :
        /\ req[r].outcome = "response"
        /\ HopHeaders \subseteq DOMAIN req[r].backend[1].headers
        /\ DOMAIN req[r].response[1].headers = {"content-type"}
        /\ req[r].response[1].status_code = 200

\* the pattern with each '*' standing for some characters, none included,
\* and every other character for itself, against the whole path
RECURSIVE glob_match(_, _)
glob_match(pattern, path) ==
    IF pattern = << >> THEN path = << >>
    ELSE IF Head(pattern) = "*"
         THEN \/ glob_match(Tail(pattern), path)
              \/ path # << >> /\ glob_match(pattern, Tail(path))
         ELSE /\ path # << >>
              /\ Head(pattern) = Head(path)
              /\ glob_match(Tail(pattern), Tail(path))

\* C12 as stated: '/*' matches every path, a pattern with '*' matches
\* exactly the paths it globs, a pattern without '*' only the equal path;
\* so matching against one endpoint open to every method finds it exactly
\* for the paths its pattern globs.
C12_GlobSemantics ==
    m_result[1] = "done" =>
        /\ \A i \in 1..Len(m_endpoints) :
              LET pat == m_endpoints[i].path
              IN  /\ pat = P_star => path_matches(pat, m_path)
                  /\ Contains(pat, "*") =>
                        (path_matches(pat, m_path) <=> glob_match(pat, m_path))
                  /\ ~Contains(pat, "*") =>
                        (path_matches(pat, m_path) <=> pat = m_path)
        /\ (Len(m_endpoints) = 1 /\ m_endpoints[1].methods = << "*" >>) =>
              ((m_result[2] # None) <=> glob_match(m_endpoints[1].path, m_path))

\* C13 as stated: a matched request's endpoint and its target come from
\* the same configuration object, whenever a reload swaps the active one.
C13_SameInstance ==
    \A r \in Slots :
        (req[r].endpoint # None /\ req[r].target # None) =>
            /\ req[r].ep_cfg = req[r].tgt_cfg
            /\ Contains(req[r].target[1].endpoints, req[r].endpoint[1])

\* C14: the loop thread owns the lock only while one handler is inside
\* the matcher; a handler that evaluates rules, sleeps for an injected
\* delay or waits for the backend has left its with block, and no handler
\* owns the lock while the loop is asleep.
C14_NoLockWhileBlocked ==
    /\ config_lock = "loop" <=> \E r \in Slots : req[r].holds
    /\ \A r \in Slots :
          /\ req[r].holds => (req[r].pc = "locked" /\ running = r)
          /\ req[r].pc \in {"eval", "sleeping", "forwarding"} => ~req[r].holds
          /\ req[r].pc = "sleeping" => config_lock # "loop"

\* one request sleeps for its delay while the watcher's reload owns the
\* lock
C14_Witness ==
    \E r \in Slots :
        /\ req[r].pc = "sleeping"
        /\ ~req[r].holds
        /\ config_lock = "watcher"

\* C15 as stated: the replacement is loaded before the lock is taken, so
\* no request waits for the lock at the matcher while the watcher reads,
\* parses or validates the file.
C15_ReloadLocksOnlySwap ==
    \A r \in Slots :
        req[r].pc = "find" => ~(rpc = "loading" /\ config_lock = "watcher")

\* the rules request r has been through: up to the one that fired, else
\* the ones before the current one
Evaluated(r) ==
    IF req[r].pc = "sleeping" \/ req[r].fired > 0
    THEN req[r].rule ELSE req[r].rule - 1

MethodApplies(rule, method) ==
    rule.condition.method = None
        \/ upper(rule.condition.method[1]) = upper(method)

\* the rule is enabled and its method is unset, empty or the request's
Increments(rule, method) ==
    /\ rule.condition.enabled
    /\ \/ ~TruthyStr(rule.condition.method)
       \/ upper(rule.condition.method[1]) = upper(method)

\* C16 as stated: every evaluated rule whose method is unset or equals the
\* request's raises the key's counter by one, every other rule by nothing.
C16_Original_Step ==
    \A r \in Slots :
        EvalStep(r) =>
            request_counts'[Key(r)] = request_counts[Key(r)]
                + (IF MethodApplies(CurRule(r), req[r].method) THEN 1 ELSE 0)

C16_Step ==
    \A r \in Slots :
        /\ EvalStep(r) =>
              /\ request_counts'[Key(r)] = request_counts[Key(r)]
                    + (IF Increments(CurRule(r), req[r].method) THEN 1 ELSE 0)
              /\ FiredIn(r) => req'[r].rule = req[r].rule
              /\ ~FiredIn(r) =>
                    (req'[r].pc = "eval" /\ req'[r].rule = req[r].rule + 1)
        /\ (req[r].pc = "body" /\ req'[r].pc # "body") =>
              (req'[r].pc = "eval" /\ req'[r].rule = 1 /\ req'[r].incs = 0)
        /\ req[r].pc \in {"eval", "sleeping", "forwarding", "completed", "failed"} =>
              req[r].incs = Cardinality({i \in 1..Evaluated(r) :
                                Increments(Rules(r)[i], req[r].method)})
        /\ (req[r].pc \in {"sleeping", "forwarding", "completed", "failed"}
               /\ req'[r].pc # "free") =>
              (req'[r].incs = req[r].incs /\ req'[r].pc # "eval")

C17_Step ==
    /\ \A k \in Keys : request_counts'[k] >= request_counts[k]
    /\ (rpc' # rpc \/ config' # config \/ log_level' # log_level
            \/ reload_errors' # reload_errors) =>
          request_counts' = request_counts

\* C17: counters only grow, and reloads do not touch them.
C17_CountersMonotone == [][C17_Step]_vars

\* a request that took its target from the first configuration has raised
\* its counter and is asleep; a reload has gone through in the meantime
C17_Witness ==
    \E r \in Slots :
        /\ req[r].pc = "sleeping"
        /\ req[r].tgt_cfg = 1
        /\ config.id = 2
        /\ rpc = "idle"
        /\ request_counts[Key(r)] >= 2

\* the counters with every key but k back at nought
OnlyKey(counts, k) == [x \in Keys |-> IF x = k THEN counts[x] ELSE 0]

\* C18: a rule evaluation for a request changes no counter but the one of
\* the request's own method and path, and whether a rule without
\* probability fires depends on no other counter; requests that differ in
\* method or path have different keys.
C18_Step ==
    \A r \in Slots :
        /\ EvalStep(r) =>
              /\ \A k \in Keys \ {Key(r)} :
                    request_counts'[k] = request_counts[k]
              /\ CurRule(r).condition.probability = None =>
                    (FiredIn(r) <=>
                        should_inject_failure(CurRule(r), req[r].method,
                            req[r].path, OnlyKey(request_counts, Key(r)), 0).fire)
        /\ \A q \in Slots :
              (InFlight(r) /\ InFlight(q)
                 /\ << req[r].method, req[r].path >> # << req[q].method, req[q].path >>)
                  => Key(r) # Key(q)

\* C18: one counter per method and path, and nothing else moves.
C18_OwnKeyOnly == [][C18_Step]_vars

\* under the endpoint for every path two requests for the same path, one
\* GET and one POST, went through its every=2 rule: each raised its own
\* counter to 1 and neither fired the rule
C18_Witness ==
    \E r, q \in Slots :
        /\ req[r].pc = "forwarding" /\ req[q].pc = "forwarding"
        /\ req[r].endpoint[1].path = P_star
        /\ req[q].endpoint = req[r].endpoint
        /\ Len(Rules(r)) = 1
        /\ OnlyEvery(Rules(r)[1].condition)
        /\ req[r].path = req[q].path
        /\ req[r].method # req[q].method
        /\ request_counts[Key(r)] = 1
        /\ request_counts[Key(q)] = 1

\* header names are the same name whatever the case of their letters
lower(name) ==
    CASE name = "Host" -> "host"
      [] name = "X-Key" -> "x-key"
      [] OTHER -> name

SameName(a, b) == lower(a) = lower(b)

\* C19 as stated: what is sent to the backend holds no Host header; every
\* static header of the target, Host aside, is sent with the target's value
\* and no header of the same name with another value beside it; every
\* other inbound header, Host aside, is sent as it came, and nothing else.
C19_OutboundHeaders ==
    \A r \in Slots :
        req[r].sent # None =>
            LET out == req[r].sent[1].headers
                inb == req[r].headers
                th == OrEmpty(req[r].target[1].headers)
            IN  /\ \A k \in DOMAIN out : ~SameName(k, "host")
                /\ \A k \in DOMAIN th :
                      ~SameName(k, "host") =>
                          /\ k \in DOMAIN out
                          /\ \A j \in DOMAIN out :
                                SameName(j, k) => out[j] = th[k]
                /\ \A k \in DOMAIN inb :
                      (~SameName(k, "host")
                          /\ \A j \in DOMAIN th : ~SameName(j, k)) =>
                          (k \in DOMAIN out /\ out[k] = inb[k])
                /\ DOMAIN out \subseteq (DOMAIN inb) \cup (DOMAIN th)

\* the state of a request in the life cycle of the pipeline
Stage(q) ==
    CASE q.pc \in {"find", "locked", "found"} -> "Received"
      [] q.pc \in {"body", "eval"} -> "Matched"
      [] q.pc = "rejected" -> "Rejected"
      [] q.pc = "sleeping" -> "Injected"
      [] q.pc = "forwarding" -> "Forwarding"
      [] q.pc = "completed" -> "Completed"
      [] q.pc = "failed" -> "Failed"
      [] OTHER -> "None"

\* a rule without delay fires and answers in one step of the handler
StageOrder ==
    { << "None", "Received" >>,
      << "Received", "Matched" >>, << "Received", "Rejected" >>,
      << "Matched", "Injected" >>, << "Matched", "Forwarding" >>,
      << "Matched", "Completed" >>, << "Injected", "Completed" >>,
      << "Forwarding", "Completed" >>, << "Forwarding", "Failed" >>,
      << "Rejected", "None" >>, << "Completed", "None" >>,
      << "Failed", "None" >> }

C20_Step ==
    \A r \in Slots :
        /\ Stage(req'[r]) # Stage(req[r]) =>
              << Stage(req[r]), Stage(req'[r]) >> \in StageOrder
        /\ (Stage(req[r]) = "Matched" /\ Stage(req'[r]) = "Completed") =>
              req'[r].fired > 0
        /\ req'[r].pc = "rejected" => req'[r].response[1].status_code = 404
        /\ req'[r].pc = "failed" => req'[r].response[1].status_code = 502
        /\ req'[r].pc = "completed" =>
              req'[r].response[1].kind \in {"injected", "relayed"}

\* C20: a request moves from Received to Matched or Rejected, from Matched
\* to Injected or Forwarding, and from there to Completed or Failed, and
\* every received request reaches one of Rejected (404), Completed and
\* Failed (502); a backend call without an answer ends as Failed.
C20_Terminates ==
    /\ [][C20_Step]_vars
    /\ \A r \in Slots : (req[r].pc # "free") ~> (req[r].pc \in Terminal)

\* the backend call of the last request has failed after the requests
\* before it were answered and gone
C20_Witness ==
    \E r \in Slots :
        /\ req[r].pc = "failed"
        /\ req[r].response[1].status_code = 502
        /\ nreq >= 2
        /\ \A q \in Slots \ {r} : req[q].pc = "free"

====
